---- MODULE Spec2Model ----
(***************************************************************************)
(* A model of peni.sh (src/main.py): the credential generator behind       *)
(* GET /api/wifi, the image directory cache (ImageCache), the image        *)
(* retrieval handler GET /image/{filename}, the pages GET /health and      *)
(* GET /, and the handler tasks that share the cache on the event loop.    *)
(*                                                                         *)
(* Text is modelled as a sequence of one-character strings, so that        *)
(* str.strip, str.startswith, slicing, json.loads, str.lower and the       *)
(* f-string formatting of an integer are computed, character by            *)
(* character, the way the code computes them.                              *)
(***************************************************************************)
EXTENDS Integers, Sequences, FiniteSets, TLC

VARIABLES
    wifiResp,     \* GET /api/wifi: the last upstream outcome and the response to it
    rootExists,   \* filesystem: Path(IMAGE_DIR).exists()
    fs,           \* filesystem: the kind of every directory entry under and beside the root
    clock,        \* asyncio.get_event_loop().time()
    max_size,     \* ImageCache.max_size
    images,       \* ImageCache._images
    last_scan,    \* ImageCache._last_scan
    lastOk,       \* history: the time of the last scan that succeeded (Never if none)
    call,         \* history: the most recent ImageCache.get_images call
    imgResp,      \* GET /image/{filename}: the last request and the response to it
    healthResp,   \* GET /health: the response to the last request
    rootResp,     \* GET /: the response to the last request
    tasks,        \* the handler tasks in flight: where each is in get_images
    scans         \* history: the list every completed scan produced

vars == <<wifiResp, rootExists, fs, clock, max_size, images, last_scan, lastOk, call, imgResp,
          healthResp, rootResp, tasks, scans>>

wifiVars == <<wifiResp>>
cacheVars == <<clock, max_size, images, last_scan, lastOk, call>>
fsVars == <<rootExists, fs>>
taskVars == <<tasks, scans>>
pageVars == <<healthResp, rootResp>>

(***************************************************************************)
(* Python text                                                             *)
(***************************************************************************)

\* The characters str.strip() removes that occur in the modelled texts.
Whitespace == {" ", "\n"}

RECURSIVE lstrip(_)
lstrip(s) ==
    IF s # <<>> /\ Head(s) \in Whitespace THEN lstrip(Tail(s)) ELSE s

RECURSIVE rstrip(_)
rstrip(s) ==
    IF s # <<>> /\ s[Len(s)] \in Whitespace THEN rstrip(SubSeq(s, 1, Len(s) - 1)) ELSE s

\* str.strip()
strip(s) == rstrip(lstrip(s))

\* str.startswith(prefix)
startswith(s, prefix) ==
    Len(s) >= Len(prefix) /\ SubSeq(s, 1, Len(prefix)) = prefix

\* str.endswith(suffix)
endswith(s, suffix) ==
    Len(s) >= Len(suffix) /\ SubSeq(s, Len(s) - Len(suffix) + 1, Len(s)) = suffix

\* s[k:]
DropFirst(s, k) == SubSeq(s, k + 1, Len(s))

\* s[:-k]
DropLast(s, k) == SubSeq(s, 1, Len(s) - k)

Digit == <<"0", "1", "2", "3", "4", "5", "6", "7", "8", "9">>

\* f"{n}" for an integer n >= 0: its decimal digits, no padding.
RECURSIVE FormatInt(_)
FormatInt(n) ==
    IF n < 10 THEN <<Digit[n + 1]>> ELSE FormatInt(n \div 10) \o <<Digit[(n % 10) + 1]>>

(***************************************************************************)
(* Python values: a str, or None                                           *)
(***************************************************************************)

Str(s) == [kind |-> "str", val |-> s]
None == [kind |-> "none", val |-> <<>>]

(***************************************************************************)
(* json.loads, on the JSON the modelled upstream texts use: whitespace, an *)
(* object whose members are string literals or null, and the scalars (a    *)
(* string literal, null) at top level.  Everything else is a syntax error. *)
(***************************************************************************)

Quote == "\""

RECURSIVE SkipWs(_, _)
SkipWs(s, i) ==
    IF i <= Len(s) /\ s[i] \in Whitespace THEN SkipWs(s, i + 1) ELSE i

\* The index of the quote closing a string literal whose body starts at i; 0 if none.
RECURSIVE ClosingQuote(_, _)
ClosingQuote(s, i) ==
    IF i > Len(s) THEN 0
    ELSE IF s[i] = Quote THEN i
    ELSE ClosingQuote(s, i + 1)

JsonFail == [ok |-> FALSE, value |-> None, next |-> 0]

\* A scalar starting at i (i is not a whitespace): [ok, value, next].
ParseScalar(s, i) ==
    IF i > Len(s) THEN JsonFail
    ELSE IF s[i] = Quote THEN
        LET j == ClosingQuote(s, i + 1) IN
        IF j = 0 THEN JsonFail
        ELSE [ok |-> TRUE, value |-> Str(SubSeq(s, i + 1, j - 1)), next |-> j + 1]
    ELSE IF i + 3 <= Len(s) /\ SubSeq(s, i, i + 3) = <<"n", "u", "l", "l">> THEN
        [ok |-> TRUE, value |-> None, next |-> i + 4]
    ELSE JsonFail

MembersFail == [ok |-> FALSE, members |-> <<>>, next |-> 0]

\* The members of an object from index i on, i being after "{" or after a ",":
\* [ok, members, next], members a sequence of <<key, value>> in textual order.
\* A member is read in steps: its key (a string literal at k), the colon at
\* c, its value v, and the "," or "}" at e.
RECURSIVE ParseMembers(_, _, _)

MemberEnd(s, acc, e) ==
    IF e > Len(s) THEN MembersFail
    ELSE IF s[e] = "," THEN ParseMembers(s, e + 1, acc)
    ELSE IF s[e] = "}" THEN [ok |-> TRUE, members |-> acc, next |-> e + 1]
    ELSE MembersFail

MemberValue(s, key, v, acc) ==
    IF ~v.ok THEN MembersFail
    ELSE MemberEnd(s, Append(acc, <<key.value.val, v.value>>), SkipWs(s, v.next))

MemberColon(s, key, c, acc) ==
    IF c > Len(s) \/ s[c] # ":" THEN MembersFail
    ELSE MemberValue(s, key, ParseScalar(s, SkipWs(s, c + 1)), acc)

MemberKey(s, key, acc) ==
    IF ~key.ok THEN MembersFail
    ELSE MemberColon(s, key, SkipWs(s, key.next), acc)

MemberStart(s, k, acc) ==
    IF k > Len(s) \/ s[k] # Quote THEN MembersFail
    ELSE MemberKey(s, ParseScalar(s, k), acc)

ParseMembers(s, i, acc) == MemberStart(s, SkipWs(s, i), acc)

JsonError == [ok |-> FALSE, isdict |-> FALSE, members |-> <<>>]

\* The value parsed, if nothing but whitespace follows it from index next on.
JsonDocument(text, ok, next, isdict, members) ==
    IF ok /\ SkipWs(text, next) > Len(text)
    THEN [ok |-> TRUE, isdict |-> isdict, members |-> members]
    ELSE JsonError

JsonMembersDocument(text, m) == JsonDocument(text, m.ok, m.next, TRUE, m.members)

JsonScalarDocument(text, v) == JsonDocument(text, v.ok, v.next, FALSE, <<>>)

JsonObjectAt(text, j) ==
    IF j <= Len(text) /\ text[j] = "}" THEN JsonDocument(text, TRUE, j + 1, TRUE, <<>>)
    ELSE JsonMembersDocument(text, ParseMembers(text, j, <<>>))

JsonValueAt(text, i) ==
    IF i > Len(text) THEN JsonError
    ELSE IF text[i] = "{" THEN JsonObjectAt(text, SkipWs(text, i + 1))
    ELSE JsonScalarDocument(text, ParseScalar(text, i))

\* json.loads(text): [ok, isdict, members]; ok = FALSE is json.JSONDecodeError.
json_loads(text) == JsonValueAt(text, SkipWs(text, 1))

\* key in data
HasKey(members, key) == \E i \in 1..Len(members) : members[i][1] = key

\* data[key] for a key that is present: the last member of that name wins.
GetItem(members, key) ==
    LET i == CHOOSE n \in 1..Len(members) :
                 /\ members[n][1] = key
                 /\ \A m \in (n + 1)..Len(members) : members[m][1] # key
    IN  members[i][2]

\* data.get(key, default)
DictGet(members, key, default) ==
    IF HasKey(members, key) THEN GetItem(members, key) ELSE default

(***************************************************************************)
(* The credential generator: generate_ssid_password and GET /api/wifi      *)
(***************************************************************************)

KeySsid == <<"s", "s", "i", "d">>
KeyPassword == <<"p", "a", "s", "s", "w", "o", "r", "d">>
KeyHint == <<"h", "i", "n", "t">>

\* The grave accent U+0060, which cannot be written inside a TLA+ string: the
\* one element of a text that is not written as the character itself.
Backtick == "U+0060"

FenceJson == <<Backtick, Backtick, Backtick, "j", "s", "o", "n">>
Fence == <<Backtick, Backtick, Backtick>>

DefaultHint ==
    <<"D", "e", "r", "i", "v", "e", " ", "p", "a", "s", "s", "w", "o", "r", "d", " ",
      "f", "r", "o", "m", " ", "S", "S", "I", "D", " ", "u", "s", "i", "n", "g", " ",
      "t", "h", "e", " ", "p", "a", "t", "t", "e", "r", "n">>

FallbackSsidPrefix == <<"N", "e", "t", "w", "o", "r", "k", "D", "o", "w", "n">>
FallbackPasswordPrefix == <<"n", "d">>
FallbackHint ==
    <<"F", "a", "l", "l", "b", "a", "c", "k", " ", "m", "o", "d", "e", ":", " ", "'",
      "n", "d", "'", " ", "+", " ", "t", "h", "e", " ", "n", "u", "m", "b", "e", "r",
      " ", "f", "r", "o", "m", " ", "S", "S", "I", "D">>

\* An SSIDPasswordPair instance.
Pair(s, p, h) == [ssid |-> s, password |-> p, hint |-> h]
NoPair == Pair(None, None, None)

\* The outcome of a block of code: it returned a value, or raised an exception
\* (status is the status_code of a raised HTTPException, else 0).
Returned(v) == [raised |-> "none", status |-> 0, value |-> v]
Raised(e, st) == [raised |-> e, status |-> st, value |-> NoPair]

\* The classes `except Exception` catches, among those that occur here.  The
\* errors of the remote call (openai's, the transport's, a timeout) are all
\* subclasses of Exception, and so is fastapi's HTTPException.
ExceptionSubclasses ==
    {"APIConnectionError", "AuthenticationError", "APITimeoutError",
     "IndexError", "AttributeError", "TypeError", "KeyError",
     "ValidationError", "HTTPException", "OSError", "PermissionError",
     "ValueError"}

\* SSIDPasswordPair(ssid=, password=, hint=): ssid and password are required
\* str fields, hint is Optional[str].
ValidPair(s, p, h) == s.kind = "str" /\ p.kind = "str"

\* Lines 166-167 and 168-169: the two removals.
StripOpening(content) ==
    IF startswith(content, FenceJson) THEN DropFirst(content, 7) ELSE content

StripClosing(content) ==
    IF endswith(content, Fence) THEN DropLast(content, 3) ELSE content

\* CleanMarkdown with the closing marker left in place.
CleanMarkdownOpeningOnly(content) == strip(StripOpening(content))

\* Lines 166-170: the markdown clean-up of the stripped content.
CleanMarkdown(content) == strip(StripClosing(StripOpening(content)))

\* Lines 174-178: the pair built from the three values.
BuildPair(s, p, h) ==
    IF ValidPair(s, p, h) THEN Returned(Pair(s, p, h)) ELSE Raised("ValidationError", 0)

\* Lines 173-183: what the inner try block does with the outcome of json.loads.
PairFromData(data) ==
    IF ~data.ok THEN Raised("HTTPException", 502)
    ELSE IF ~data.isdict THEN Raised("TypeError", 0)
    ELSE IF ~HasKey(data.members, KeySsid) THEN Raised("KeyError", 0)
    ELSE IF ~HasKey(data.members, KeyPassword) THEN Raised("KeyError", 0)
    ELSE BuildPair(GetItem(data.members, KeySsid), GetItem(data.members, KeyPassword),
                   DictGet(data.members, KeyHint, Str(DefaultHint)))

\* Lines 172-183: the inner try block on the cleaned content.
ParseContent(content) == PairFromData(json_loads(content))

\* Lines 127-183: the body of the outer try, given what the remote call did.
TryBody(up) ==
    IF up.kind = "raise" THEN Raised(up.exc, 0)
    ELSE IF up.kind = "no_choices" THEN Raised("IndexError", 0)
    ELSE IF up.kind = "null_content" THEN Raised("AttributeError", 0)
    ELSE ParseContent(CleanMarkdown(strip(up.content)))

\* FallbackPair with the password built from a second number of the range.
FallbackPairTwoNumbers(fallback_number) ==
    Pair(Str(FallbackSsidPrefix \o FormatInt(fallback_number)),
         Str(FallbackPasswordPrefix \o FormatInt(10999 - fallback_number)),
         Str(FallbackHint))

\* Lines 188-197: the fallback pair built from one drawn number.
FallbackPair(fallback_number) ==
    Pair(Str(FallbackSsidPrefix \o FormatInt(fallback_number)),
         Str(FallbackPasswordPrefix \o FormatInt(fallback_number)),
         Str(FallbackHint))

\* CaughtByOuterExcept with HTTPException let through, as get_image does.
CaughtUnlessHttp(e) == e \in ExceptionSubclasses \ {"HTTPException"}

\* Line 185: what the outer handler catches.
CaughtByOuterExcept(e) == e \in ExceptionSubclasses

\* Lines 185-197: the outer handler, given what the try block did.
OuterExcept(r, fallback_number) ==
    IF r.raised = "none" THEN r
    ELSE IF CaughtByOuterExcept(r.raised) THEN Returned(FallbackPair(fallback_number))
    ELSE r

\* generate_ssid_password, given the upstream outcome and the number
\* random.randint draws if the fallback is taken.
generate_ssid_password(up, fallback_number) == OuterExcept(TryBody(up), fallback_number)

\* What the framework sends for the outcome of a handler: the value with 200,
\* the status of an HTTPException, 500 for any other exception.
HttpStatus(r) ==
    IF r.raised = "none" THEN 200
    ELSE IF r.raised = "HTTPException" THEN r.status
    ELSE 500

\* The draws of random.randint(a, b) that are explored: both ends of the
\* range and every multiple of DrawStride in it.
DrawStride == 1500
randint(a, b) == {n \in a..b : n = a \/ n = b \/ n % DrawStride = 0}

FallbackLow == 1000
FallbackHigh == 9999

(***************************************************************************)
(* What the remote call can do: raise, answer without a choice or without  *)
(* content, or answer with a text.  The texts follow the format the prompt *)
(* asks for (lines 140-145), bare or inside markdown fences, and the ways  *)
(* of departing from it.                                                   *)
(***************************************************************************)

CosmicPizza88 == <<"C", "o", "s", "m", "i", "c", "P", "i", "z", "z", "a", "8", "8">>
NightOwlCafe == <<"N", "i", "g", "h", "t", "O", "w", "l", "C", "a", "f", "e">>
CP88 == <<"C", "P", "8", "8", "!">>
FirstLetters ==
    <<"f", "i", "r", "s", "t", " ", "l", "e", "t", "t", "e", "r", "s", "+", "n", "u",
      "m", "b", "e", "r", "s", "+", "s", "y", "m", "b", "o", "l">>

SampleSsids == {CosmicPizza88, NightOwlCafe}
SamplePasswords == {CP88}
SampleHints == {Str(FirstLetters), None}

\* The JSON text of a string literal, of a value and of an object.
Literal(s) == <<Quote>> \o s \o <<Quote>>
ValueText(v) == IF v.kind = "str" THEN Literal(v.val) ELSE <<"n", "u", "l", "l">>

RECURSIVE MembersText(_, _)
MembersText(members, indent) ==
    IF members = <<>> THEN <<>>
    ELSE indent \o Literal(members[1][1]) \o <<":", " ">> \o ValueText(members[1][2])
         \o (IF Len(members) > 1 THEN <<",">> ELSE indent)
         \o MembersText(Tail(members), indent)

ObjectText(members, indent) == <<"{">> \o MembersText(members, indent) \o <<"}">>

Indents == {<<>>, <<"\n", " ">>}

\* The object the prompt asks for, holding the three given values.
FullObject(s, p, h, indent) ==
    ObjectText(<<<<KeySsid, Str(s)>>, <<KeyPassword, Str(p)>>, <<KeyHint, h>>>>, indent)

WellFormedBodies ==
    {FullObject(s, p, h, indent) :
        s \in SampleSsids, p \in SamplePasswords, h \in SampleHints, indent \in Indents}

OtherBodies ==
    {ObjectText(<<<<KeySsid, Str(CosmicPizza88)>>, <<KeyPassword, Str(CP88)>>>>, <<>>),
     ObjectText(<<<<KeyPassword, Str(CP88)>>, <<KeyHint, Str(FirstLetters)>>>>, <<>>),
     ObjectText(<<<<KeySsid, Str(CosmicPizza88)>>, <<KeyHint, Str(FirstLetters)>>>>, <<>>),
     ObjectText(<<<<KeySsid, None>>, <<KeyPassword, Str(CP88)>>, <<KeyHint, None>>>>, <<>>),
     ObjectText(<<<<KeySsid, Str(CosmicPizza88)>>, <<KeyPassword, None>>>>, <<>>),
     ObjectText(<<>>, <<>>),
     Literal(CosmicPizza88),
     <<"n", "u", "l", "l">>,
     <<>>,
     DropLast(FullObject(CosmicPizza88, CP88, None, <<>>), 1),
     DropLast(FullObject(CosmicPizza88, CP88, Str(FirstLetters), <<>>), 2),
     <<"S", "u", "r", "e", ":", " ">> \o FullObject(CosmicPizza88, CP88, None, <<>>),
     FullObject(CosmicPizza88, CP88, None, <<>>) \o <<" ", "o", "k">>}

Bodies == WellFormedBodies \cup OtherBodies

\* How a body is wrapped: an opening marker, a closing marker, the line break
\* between the markers and the body, and blank padding around the whole.
Wrappers ==
    [open : {<<>>, FenceJson, Fence}, close : {<<>>, Fence},
     nl : {<<>>, <<"\n">>}, pad : {<<>>, <<" ">>}]

Wrap(w, body) == w.pad \o w.open \o w.nl \o body \o w.nl \o w.close \o w.pad \o w.nl

RemoteErrors == {"APIConnectionError", "AuthenticationError", "APITimeoutError"}

Upstream(kind, exc, content) == [kind |-> kind, exc |-> exc, content |-> content]

Upstreams ==
    {Upstream("raise", e, <<>>) : e \in RemoteErrors}
    \cup {Upstream("no_choices", "none", <<>>), Upstream("null_content", "none", <<>>)}
    \cup {Upstream("text", "none", Wrap(w, b)) : w \in Wrappers, b \in Bodies}

NoRequest == [up |-> Upstream("idle", "none", <<>>), status |-> 0, body |-> NoPair]

\* A request to GET /api/wifi for which the remote call will do `up`.
Pending(up) == [up |-> up, status |-> 0, body |-> NoPair]

\* The response sent for the outcome r of the handler.
WifiResponse(up, r) == [up |-> up, status |-> HttpStatus(r), body |-> r.value]

\* GET /api/wifi: the handler returns what generate_ssid_password returns.
get_wifi_credentials ==
    /\ wifiResp.up.kind # "idle"
    /\ wifiResp.status = 0
    /\ \E n \in randint(FallbackLow, FallbackHigh) :
           wifiResp' = WifiResponse(wifiResp.up, generate_ssid_password(wifiResp.up, n))
    /\ UNCHANGED <<fsVars, cacheVars, imgResp, pageVars, taskVars>>

(***************************************************************************)
(* The filesystem.  A path is a sequence of components, each a text.  The  *)
(* image root is /srv/images; beside it are /srv/out.jpg and /etc/passwd.  *)
(* Under the root are the entries of Entries, whose kind the environment   *)
(* changes, a directory named like an image (d.gif), a text file (c.txt)   *)
(* and a subdirectory (sub).                                               *)
(***************************************************************************)

Srv == <<"s", "r", "v">>
ImagesName == <<"i", "m", "a", "g", "e", "s">>
Etc == <<"e", "t", "c">>
Passwd == <<"p", "a", "s", "s", "w", "d">>
OutJpg == <<"o", "u", "t", ".", "j", "p", "g">>
SubName == <<"s", "u", "b">>
DotDot == <<".", ".">>
Dot == <<".">>

\* Path(config.IMAGE_DIR)
IMAGE_DIR == <<Srv, ImagesName>>

EntryIds == {"a", "B", "c", "d", "l", "sub", "e"}

\* The directory (relative to the root) and the name of every entry.
EntryDir(id) == IF id = "e" THEN <<SubName>> ELSE <<>>
EntryName(id) ==
    CASE id = "a" -> <<"a", ".", "j", "p", "g">>
      [] id = "B" -> <<"B", ".", "P", "N", "G">>
      [] id = "c" -> <<"c", ".", "t", "x", "t">>
      [] id = "d" -> <<"d", ".", "g", "i", "f">>
      [] id = "l" -> <<"l", ".", "j", "p", "e", "g">>
      [] id = "sub" -> SubName
      [] id = "e" -> <<"e", ".", "w", "e", "b", "p">>

EntryPath(id) == IMAGE_DIR \o EntryDir(id) \o <<EntryName(id)>>

\* The kinds an entry takes: a regular file, a directory, a symbolic link
\* (to the regular file /srv/out.jpg, outside the root), or absent.
EntryKinds(id) ==
    CASE id \in {"a", "B", "e"} -> {"absent", "file"}
      [] id = "c" -> {"file"}
      [] id \in {"d", "sub"} -> {"dir"}
      [] id = "l" -> {"absent", "link"}

LinkTarget == <<Srv, OutJpg>>

FsStates == {f \in [EntryIds -> {"absent", "file", "dir", "link"}] :
                \A id \in EntryIds : f[id] \in EntryKinds(id)}

\* lstat: the kind of the node at an absolute path, symbolic links not followed.
LKind(path) ==
    IF path \in {<<>>, <<Srv>>, <<Etc>>} THEN "dir"
    ELSE IF path \in {LinkTarget, <<Etc, Passwd>>} THEN "file"
    ELSE IF path = IMAGE_DIR THEN (IF rootExists THEN "dir" ELSE "absent")
    ELSE IF rootExists /\ \E id \in EntryIds : EntryPath(id) = path
         THEN fs[CHOOSE id \in EntryIds : EntryPath(id) = path]
    ELSE "absent"

Parent(path) == IF path = <<>> THEN <<>> ELSE SubSeq(path, 1, Len(path) - 1)

\* Path.resolve(): the components `rest` followed from the resolved directory
\* `cur`.  ".." steps to the parent, a symbolic link is replaced by its
\* target, and a component that does not exist is kept as it is written.
RECURSIVE ResolveFrom(_, _)
ResolveFrom(cur, rest) ==
    IF rest = <<>> THEN cur
    ELSE IF Head(rest) = DotDot THEN ResolveFrom(Parent(cur), Tail(rest))
    ELSE IF LKind(Append(cur, Head(rest))) = "link" THEN ResolveFrom(LinkTarget, Tail(rest))
    ELSE ResolveFrom(Append(cur, Head(rest)), Tail(rest))

resolve(path) == ResolveFrom(<<>>, path)

\* stat: the kind of the node the operating system reaches by following
\* `rest` from the directory `cur`, symbolic links followed; "absent" when a
\* component is missing or is looked up in something that is no directory.
RECURSIVE StatFrom(_, _)
StatFrom(cur, rest) ==
    IF rest = <<>> THEN LKind(cur)
    ELSE IF LKind(cur) # "dir" THEN "absent"
    ELSE IF Head(rest) = DotDot THEN StatFrom(Parent(cur), Tail(rest))
    ELSE IF LKind(Append(cur, Head(rest))) = "link" THEN StatFrom(LinkTarget, Tail(rest))
    ELSE StatFrom(Append(cur, Head(rest)), Tail(rest))

Kind(path) == StatFrom(<<>>, path)

\* Path.exists(), Path.is_file()
exists(path) == Kind(path) # "absent"
is_file(path) == Kind(path) = "file"

\* PurePath.is_relative_to(other)
is_relative_to(path, other) ==
    Len(other) <= Len(path) /\ SubSeq(path, 1, Len(other)) = other

\* PurePath.suffix: the last component from its last dot on, unless that dot
\* is its first or its last character.
RECURSIVE rfind(_, _, _)
rfind(s, c, i) == IF i = 0 THEN 0 ELSE IF s[i] = c THEN i ELSE rfind(s, c, i - 1)

suffix(path) ==
    LET name == IF path = <<>> THEN <<>> ELSE path[Len(path)]
        i == rfind(name, ".", Len(name))
    IN  IF 1 < i /\ i < Len(name) THEN SubSeq(name, i, Len(name)) ELSE <<>>

UpperCase == <<"A", "B", "C", "D", "E", "F", "G", "H", "I", "J", "K", "L", "M",
               "N", "O", "P", "Q", "R", "S", "T", "U", "V", "W", "X", "Y", "Z">>
LowerCase == <<"a", "b", "c", "d", "e", "f", "g", "h", "i", "j", "k", "l", "m",
               "n", "o", "p", "q", "r", "s", "t", "u", "v", "w", "x", "y", "z">>

\* str.lower()
lower(s) ==
    [i \in 1..Len(s) |->
        IF \E k \in 1..26 : UpperCase[k] = s[i]
        THEN LowerCase[CHOOSE k \in 1..26 : UpperCase[k] = s[i]]
        ELSE s[i]]

\* Config.ALLOWED_IMAGE_TYPES
ALLOWED_IMAGE_TYPES ==
    {<<".", "j", "p", "g">>, <<".", "j", "p", "e", "g">>, <<".", "p", "n", "g">>,
     <<".", "g", "i", "f">>, <<".", "w", "e", "b", "p">>}

\* Config.MAX_CACHE_SIZE
MAX_CACHE_SIZE == 1000

\* ImageCache._scan_interval
scan_interval == 300

(***************************************************************************)
(* The image directory cache: ImageCache                                   *)
(***************************************************************************)

Min(a, b) == IF a < b THEN a ELSE b

\* The orders in which a traversal of the tree can meet its entries (the
\* order of a directory listing is the filesystem's choice).
ListingOrders ==
    {<<"a", "B", "c", "d", "l", "sub", "e">>, <<"sub", "e", "l", "d", "c", "B", "a">>}

\* image_dir.rglob("*"): the path of every entry that exists, in listing order.
rglob(order) ==
    LET present == SelectSeq(order, LAMBDA id : LKind(EntryPath(id)) # "absent")
    IN  [i \in 1..Len(present) |-> EntryPath(present[i])]

\* Lines 106-109: the test a path passes to be appended to the list.
IsImageFile(file_path) ==
    is_file(file_path) /\ lower(suffix(file_path)) \in ALLOWED_IMAGE_TYPES

\* Truncate without the slice.
NoTruncate(list, n) == list

\* images[: self.max_size]
Truncate(list, n) == SubSeq(list, 1, Min(n, Len(list)))

\* What can be raised inside the try block of the scan (by exists() or while
\* the tree is walked): nothing, or an OSError.
ScanFaults == {"none", "PermissionError"}

\* Line 116: what the handler of _refresh_cache catches.
CaughtByScanExcept(e) == e \in ExceptionSubclasses

\* refresh_cache without the reset of line 101: a missing root leaves the
\* cached list as it was.
refresh_cache_no_reset(now, order, fault) ==
    IF fault # "none" THEN
        [images |-> <<>>, last_scan |-> last_scan, outcome |-> "error",
         found |-> 0, raised |-> "none"]
    ELSE IF ~exists(IMAGE_DIR) THEN
        [images |-> images, last_scan |-> last_scan, outcome |-> "missing",
         found |-> 0, raised |-> "none"]
    ELSE
        LET found == SelectSeq(rglob(order), IsImageFile) IN
        [images |-> Truncate(found, max_size), last_scan |-> now, outcome |-> "ok",
         found |-> Len(found), raised |-> "none"]

\* refresh_cache that adds what it found to the list held, in place of
\* replacing the list.
refresh_cache_extend(now, order, fault) ==
    IF fault # "none" THEN
        [images |-> <<>>, last_scan |-> last_scan, outcome |-> "error",
         found |-> 0, raised |-> "none"]
    ELSE IF ~exists(IMAGE_DIR) THEN
        [images |-> <<>>, last_scan |-> last_scan, outcome |-> "missing",
         found |-> 0, raised |-> "none"]
    ELSE
        LET found == SelectSeq(rglob(order), IsImageFile) IN
        [images |-> Truncate(images \o found, max_size), last_scan |-> now, outcome |-> "ok",
         found |-> Len(found), raised |-> "none"]

\* _refresh_cache at time now: the new _images and _last_scan, how the scan
\* ended, how many images it found, and what it raised to its caller.
refresh_cache(now, order, fault) ==
    IF fault # "none" THEN
        IF CaughtByScanExcept(fault)
        THEN [images |-> <<>>, last_scan |-> last_scan, outcome |-> "error",
              found |-> 0, raised |-> "none"]
        ELSE [images |-> images, last_scan |-> last_scan, outcome |-> "error",
              found |-> 0, raised |-> fault]
    ELSE IF ~exists(IMAGE_DIR) THEN
        [images |-> <<>>, last_scan |-> last_scan, outcome |-> "missing",
         found |-> 0, raised |-> "none"]
    ELSE
        LET found == SelectSeq(rglob(order), IsImageFile) IN
        [images |-> Truncate(found, max_size), last_scan |-> now, outcome |-> "ok",
         found |-> Len(found), raised |-> "none"]

\* needs_refresh with `and` for `or`.
needs_refresh_and(now) == now - last_scan > scan_interval /\ images = <<>>

\* needs_refresh with `>=` for `>`.
needs_refresh_ge(now) == now - last_scan >= scan_interval \/ images = <<>>

\* Line 91: the test that sends get_images to _refresh_cache.
needs_refresh(now) == now - last_scan > scan_interval \/ images = <<>>

Never == -1
NoCall == [at |-> Never, stale |-> "no", scanned |-> FALSE, outcome |-> "skipped",
           found |-> 0, raised |-> "none"]

\* History: why the cache is due for a scan at time now, judged from the
\* list held and the time of the last scan that succeeded.
Staleness(now) ==
    LET elapsed == lastOk # Never /\ now - lastOk > scan_interval IN
    IF images = <<>> THEN (IF elapsed THEN "both" ELSE "empty")
    ELSE IF elapsed THEN "elapsed"
    ELSE "no"

\* Lines 90-93 for a call at time now: the list the call leaves in the cache
\* and returns, and what became of the scan.
get_images_call(now, order, fault) ==
    IF needs_refresh(now) THEN refresh_cache(now, order, fault)
    ELSE [images |-> images, last_scan |-> last_scan,
          outcome |-> "skipped", found |-> 0, raised |-> "none"]

\* The cache after a call with result r at time now, and the history of it.
CacheStore(r, now) ==
    /\ images' = r.images
    /\ last_scan' = r.last_scan
    /\ lastOk' = IF r.outcome = "ok" THEN now ELSE lastOk
    /\ call' = [at |-> now, stale |-> Staleness(now),
                scanned |-> r.outcome # "skipped",
                outcome |-> r.outcome, found |-> r.found, raised |-> r.raised]

\* ImageCache.get_images: the list it returns is images' (line 93).
get_images ==
    /\ \E order \in ListingOrders, fault \in ScanFaults :
           CacheStore(get_images_call(clock, order, fault), clock)
    /\ UNCHANGED <<clock, max_size, fsVars, wifiResp, imgResp, pageVars, taskVars>>

(***************************************************************************)
(* The image retrieval handler: GET /image/{filename}                      *)
(***************************************************************************)

\* The NUL character, which a percent-encoded request path can carry.
Nul == "U+0000"

\* The components of a text split at "/".
RECURSIVE SplitFrom(_, _, _)
SplitFrom(s, i, part) ==
    IF i > Len(s) THEN <<part>>
    ELSE IF s[i] = "/" THEN <<part>> \o SplitFrom(s, i + 1, <<>>)
    ELSE SplitFrom(s, i + 1, Append(part, s[i]))

\* The components pathlib keeps of a text: not the empty ones, not ".".
Parts(s) == SelectSeq(SplitFrom(s, 1, <<>>), LAMBDA c : c # <<>> /\ c # Dot)

\* Path(base) / filename: an absolute filename replaces the base.
JoinPath(base, filename) ==
    IF startswith(filename, <<"/">>) THEN Parts(filename) ELSE base \o Parts(filename)

\* An HTTPException with a status, another exception, or the FileResponse.
ImageRaised(e, st) == [raised |-> e, status |-> st, served |-> <<>>]
FileResponse(path) == [raised |-> "none", status |-> 200, served |-> resolve(path)]

\* EscapesRoot without resolve(): the path as written is compared.
EscapesRootAsWritten(image_path) == ~is_relative_to(image_path, IMAGE_DIR)

\* Line 458: the security check.
EscapesRoot(image_path) == ~is_relative_to(resolve(image_path), resolve(IMAGE_DIR))

\* Lines 455-473: the try block.  A filename holding a NUL makes the
\* filesystem calls of resolve() raise ValueError.
ImageTry(filename) ==
    LET image_path == JoinPath(IMAGE_DIR, filename) IN
    IF \E i \in 1..Len(filename) : filename[i] = Nul THEN ImageRaised("ValueError", 0)
    ELSE IF EscapesRoot(image_path) THEN ImageRaised("HTTPException", 403)
    ELSE IF ~exists(image_path) \/ ~is_file(image_path) THEN ImageRaised("HTTPException", 404)
    ELSE IF lower(suffix(image_path)) \notin ALLOWED_IMAGE_TYPES
         THEN ImageRaised("HTTPException", 400)
    ELSE FileResponse(image_path)

\* ImageExcept without the `except HTTPException: raise` clause.
ImageExceptCatchAll(r) ==
    IF r.raised # "none" /\ r.raised \in ExceptionSubclasses
    THEN ImageRaised("HTTPException", 500)
    ELSE r

\* Lines 475-479: the except clauses of get_image.
ImageExcept(r) ==
    IF r.raised = "HTTPException" THEN r
    ELSE IF r.raised # "none" /\ r.raised \in ExceptionSubclasses
         THEN ImageRaised("HTTPException", 500)
    ELSE r

Filenames ==
    {<<"a", ".", "j", "p", "g">>,
     <<"B", ".", "P", "N", "G">>,
     <<"c", ".", "t", "x", "t">>,
     <<"d", ".", "g", "i", "f">>,
     <<"l", ".", "j", "p", "e", "g">>,
     <<"s", "u", "b">>,
     <<"e", ".", "w", "e", "b", "p">>,
     <<"s", "u", "b", "/", "e", ".", "w", "e", "b", "p">>,
     <<"z", "z", ".", "p", "n", "g">>,
     <<".", ".">>,
     <<".", ".", "/", "o", "u", "t", ".", "j", "p", "g">>,
     <<".", ".", "/", ".", ".", "/", "e", "t", "c", "/", "p", "a", "s", "s", "w", "d">>,
     <<"/", "e", "t", "c", "/", "p", "a", "s", "s", "w", "d">>,
     <<".", ".", "/", "i", "m", "a", "g", "e", "s", "/", "a", ".", "j", "p", "g">>,
     <<".">>,
     <<"s", "u", "b", "/", ".", ".", "/", "a", ".", "j", "p", "g">>,
     <<"z", "z", "/", ".", ".", "/", "a", ".", "j", "p", "g">>,
     <<"a", Nul, ".", "j", "p", "g">>}

\* GET /image/{filename}
get_image ==
    /\ \E filename \in Filenames :
           LET r == ImageExcept(ImageTry(filename)) IN
           imgResp' = [filename |-> filename, status |-> HttpStatus(r), served |-> r.served]
    /\ UNCHANGED <<fsVars, cacheVars, wifiResp, pageVars, taskVars>>

(***************************************************************************)
(* The health page: GET /health                                            *)
(***************************************************************************)

NoHealth == [status |-> "none", image_count |-> 0, image_dir |-> <<>>]

\* health_images reading ImageCache._images as it is, without get_images.
health_images_peek(now, order, fault) ==
    [images |-> images, last_scan |-> last_scan,
     outcome |-> "skipped", found |-> 0, raised |-> "none"]

\* Line 512: images = await image_cache.get_images()
health_images(now, order, fault) == get_images_call(now, order, fault)

\* Lines 513-517: the body of the response.
HealthBody(list) ==
    [status |-> "healthy", image_count |-> Len(list), image_dir |-> IMAGE_DIR]

\* GET /health
health_check ==
    /\ \E order \in ListingOrders, fault \in ScanFaults :
           LET r == health_images(clock, order, fault) IN
           /\ CacheStore(r, clock)
           /\ healthResp' = HealthBody(r.images)
    /\ UNCHANGED <<clock, max_size, fsVars, wifiResp, imgResp, rootResp, taskVars>>

(***************************************************************************)
(* The front page: GET /                                                   *)
(***************************************************************************)

\* PurePath.name: the last component.
name(path) == path[Len(path)]

\* Line 235: image_url = f"/image/{random_image.name}"
ImagePrefix == <<"/", "i", "m", "a", "g", "e", "/">>
image_url(random_image) == ImagePrefix \o name(random_image)

\* Lines 206-438: the page returned for the list get_images gave, i being
\* the index random.choice draws (0 when there is nothing to draw from).
\* chosen is history: the cached path the page was built from.
RootPage(list, i) ==
    IF list = <<>>
    THEN [page |-> "placeholder", image_url |-> <<>>, chosen |-> <<>>]
    ELSE [page |-> "image", image_url |-> image_url(list[i]), chosen |-> list[i]]

\* random.choice(images)
Choices(list) == IF list = <<>> THEN {0} ELSE 1..Len(list)

NoRoot == [page |-> "none", image_url |-> <<>>, chosen |-> <<>>, scanned |-> FALSE,
           fsAt |-> <<>>, rootAt |-> FALSE]

\* GET /.  scanned, fsAt and rootAt are history: whether this request
\* scanned the tree with success, and the filesystem it was answered in.
root ==
    /\ \E order \in ListingOrders, fault \in ScanFaults :
           LET r == get_images_call(clock, order, fault) IN
           /\ CacheStore(r, clock)
           /\ \E i \in Choices(r.images) :
                  LET page == RootPage(r.images, i) IN
                  rootResp' = [page |-> page.page, image_url |-> page.image_url,
                               chosen |-> page.chosen, scanned |-> r.outcome = "ok",
                               fsAt |-> fs, rootAt |-> rootExists]
    /\ UNCHANGED <<clock, max_size, fsVars, wifiResp, imgResp, healthResp, taskVars>>

\* Line 451: the route /image/{filename} applied to a URL.
RouteFilename(url) == DropFirst(url, Len(ImagePrefix))

\* The browser requests the image URL of the page it was given.
get_embedded_image ==
    /\ rootResp.page = "image"
    /\ LET filename == RouteFilename(rootResp.image_url)
           r == ImageExcept(ImageTry(filename))
       IN  imgResp' = [filename |-> filename, status |-> HttpStatus(r), served |-> r.served]
    /\ UNCHANGED <<fsVars, cacheVars, wifiResp, pageVars, taskVars>>

(***************************************************************************)
(* Handler tasks on the event loop                                         *)
(*                                                                         *)
(* Every handler that needs the list awaits image_cache.get_images()       *)
(* (lines 205, 486, 512).  A task can give way to another task only at an  *)
(* await.  The model lets the tasks switch at the await of line 92, before *)
(* _refresh_cache starts and after it has returned; _refresh_cache itself  *)
(* (lines 97-118) holds no await and runs as one step.  The event loop     *)
(* produces a subset of these schedules.                                   *)
(***************************************************************************)

NumTasks == 2
Tasks == 1..NumTasks

NewTask == [pc |-> "start", observed |-> <<>>, judged |-> "none", scanned |-> FALSE]

\* History: the list a scan in listing order `order` builds (lines 104-112).
ScanList(order) == Truncate(SelectSeq(rglob(order), IsImageFile), max_size)

\* Lines 90-91: the task reads the clock and judges the cache.
TaskJudge(t) ==
    /\ tasks[t].pc = "start"
    /\ tasks' = [tasks EXCEPT ![t].pc = IF needs_refresh(clock) THEN "refresh" ELSE "return",
                              ![t].judged = IF needs_refresh(clock) THEN "stale" ELSE "fresh"]
    /\ UNCHANGED <<cacheVars, fsVars, wifiResp, imgResp, pageVars, scans>>

\* Line 92 and lines 95-118: the task runs _refresh_cache.
TaskRefresh(t) ==
    /\ tasks[t].pc = "refresh"
    /\ \E order \in ListingOrders, fault \in ScanFaults :
           LET r == refresh_cache(clock, order, fault) IN
           /\ CacheStore(r, clock)
           /\ scans' = IF r.outcome = "ok" THEN Append(scans, ScanList(order)) ELSE scans
    /\ tasks' = [tasks EXCEPT ![t].pc = "return", ![t].scanned = TRUE]
    /\ UNCHANGED <<clock, max_size, fsVars, wifiResp, imgResp, pageVars>>

\* Line 93: return self._images
TaskReturn(t) ==
    /\ tasks[t].pc = "return"
    /\ tasks' = [tasks EXCEPT ![t].pc = "done", ![t].observed = images]
    /\ UNCHANGED <<cacheVars, fsVars, wifiResp, imgResp, pageVars, scans>>

TaskStep == \E t \in Tasks : TaskJudge(t) \/ TaskRefresh(t) \/ TaskReturn(t)

(***************************************************************************)
(* The environment: time passes, the filesystem changes                    *)
(***************************************************************************)

MaxClock == 302
TickSteps == {150, 151}
StartTimes == {0, 151}

\* The max_size an ImageCache is constructed with: the one of the module's
\* image_cache, and a small one that the modelled tree can exceed.
SmallMaxSize == 2
MaxSizes == {SmallMaxSize, MAX_CACHE_SIZE}

Tick ==
    /\ \E d \in TickSteps : clock + d <= MaxClock /\ clock' = clock + d
    /\ UNCHANGED <<max_size, images, last_scan, lastOk, call, fsVars, wifiResp, imgResp,
                   pageVars, taskVars>>

\* An entry among ids is created, removed or replaced.
FsChangeOf(ids) ==
    /\ \E id \in ids :
           \E k \in EntryKinds(id) : k # fs[id] /\ fs' = [fs EXCEPT ![id] = k]
    /\ UNCHANGED <<rootExists, cacheVars, wifiResp, imgResp, pageVars, taskVars>>

FsChange == FsChangeOf(EntryIds)

RootChange ==
    /\ rootExists' = ~rootExists
    /\ UNCHANGED <<fs, cacheVars, wifiResp, imgResp, pageVars, taskVars>>

NoImageRequest == [filename |-> <<>>, status |-> 0, served |-> <<>>]

\* ImageCache.__init__ (lines 82-86) and the idle handlers.
Idle ==
    /\ wifiResp = NoRequest
    /\ imgResp = NoImageRequest
    /\ healthResp = NoHealth
    /\ rootResp = NoRoot
    /\ tasks = [t \in Tasks |-> NewTask]
    /\ scans = <<>>
    /\ images = <<>>
    /\ last_scan = 0
    /\ lastOk = Never
    /\ call = NoCall

Init ==
    /\ Idle
    /\ rootExists \in BOOLEAN
    /\ fs \in FsStates
    /\ clock \in StartTimes
    /\ max_size \in MaxSizes

Next == get_images \/ Tick \/ FsChange \/ RootChange

\* The image cache with its environment.
Spec == Init /\ [][Next]_vars

InitWifi ==
    /\ wifiResp \in {Pending(up) : up \in Upstreams}
    /\ imgResp = NoImageRequest
    /\ healthResp = NoHealth
    /\ rootResp = NoRoot
    /\ tasks = [t \in Tasks |-> NewTask]
    /\ scans = <<>>
    /\ images = <<>> /\ last_scan = 0 /\ lastOk = Never /\ call = NoCall
    /\ rootExists = TRUE
    /\ fs = [id \in EntryIds |-> CHOOSE k \in EntryKinds(id) : k # "absent"]
    /\ clock = 0
    /\ max_size = MAX_CACHE_SIZE

NextWifi == get_wifi_credentials

InitImage ==
    /\ Idle
    /\ rootExists \in BOOLEAN
    /\ fs \in FsStates
    /\ clock = 0
    /\ max_size = MAX_CACHE_SIZE

NextImage == get_image \/ FsChange \/ RootChange

\* The image retrieval handler with the filesystem.
SpecImage == InitImage /\ [][NextImage]_vars

\* The credential generator with the remote service.
SpecWifi == InitWifi /\ [][NextWifi]_vars

NextHealth == health_check \/ Tick \/ FsChange \/ RootChange

\* The health page with the cache and its environment.
SpecHealth == Init /\ [][NextHealth]_vars

\* The entries that are regular files or directories.
PlainEntries == {id \in EntryIds : "link" \notin EntryKinds(id)}

\* A tree of regular files and directories, without a symbolic link.
InitRoot ==
    /\ Idle
    /\ rootExists \in BOOLEAN
    /\ fs \in {f \in FsStates : \A id \in EntryIds \ PlainEntries : f[id] = "absent"}
    /\ clock = 0
    /\ max_size = MAX_CACHE_SIZE

NextRoot == root \/ get_embedded_image \/ FsChangeOf(PlainEntries) \/ RootChange

\* The front page, the request for the image it embeds, and the filesystem.
SpecRoot == InitRoot /\ [][NextRoot]_vars

\* The tree the tasks start in holds every entry; of its entries, a.jpg
\* comes and goes while the tasks run.
InitTasks ==
    /\ Idle
    /\ rootExists \in BOOLEAN
    /\ fs = [id \in EntryIds |-> CHOOSE k \in EntryKinds(id) : k # "absent"]
    /\ clock = 0
    /\ max_size \in MaxSizes

ChangingEntries == {"a"}

NextTasks == TaskStep \/ Tick \/ FsChangeOf(ChangingEntries) \/ RootChange

\* The handler tasks sharing the cache, with its environment.
SpecTasks == InitTasks /\ [][NextTasks]_vars

(***************************************************************************)
(* The credential generator: properties, checked under SpecWifi            *)
(***************************************************************************)

Answered == wifiResp.status # 0

\* The text json.loads is given for the answered request.
CleanedContent == CleanMarkdown(strip(wifiResp.up.content))

\* C1: generate_ssid_password never fails.  Whatever the remote call did
\* (raised, answered with a text that is not JSON, with JSON lacking ssid or
\* password, with fields the model rejects, or well formed), GET /api/wifi
\* answers 200 with a pair whose ssid and password are strings: no 502, no
\* other error.
C1_NeverFails ==
    Answered =>
        /\ wifiResp.status = 200
        /\ wifiResp.body.ssid.kind = "str"
        /\ wifiResp.body.password.kind = "str"
        /\ wifiResp.body.hint.kind \in {"str", "none"}

\* A text that is not JSON (the case that raises the 502 inside the try block)
\* has been answered with 200.
C1_Witness ==
    /\ Answered
    /\ wifiResp.up.kind = "text"
    /\ ~json_loads(CleanedContent).ok
    /\ wifiResp.status = 200

\* The fallback path was taken: the try block raised.
FallbackTaken == Answered /\ TryBody(wifiResp.up).raised # "none"

IsDigits(s) == \A i \in 1..Len(s) : \E k \in 1..10 : Digit[k] = s[i]

\* C2: whenever the fallback path is taken, ssid is "NetworkDown" followed by
\* a number of exactly four digits that does not start with 0 (1000..9999),
\* and password is "nd" followed by the same digits.
C2_FallbackShape ==
    FallbackTaken =>
        LET ssid == wifiResp.body.ssid.val
            number == DropFirst(ssid, Len(FallbackSsidPrefix))
        IN  /\ wifiResp.body.ssid.kind = "str"
            /\ startswith(ssid, FallbackSsidPrefix)
            /\ Len(number) = 4
            /\ IsDigits(number)
            /\ number[1] # "0"
            /\ wifiResp.body.password = Str(FallbackPasswordPrefix \o number)

\* The remote call raised and the pair NetworkDown9999 / nd9999 was returned.
C2_Witness ==
    /\ FallbackTaken
    /\ wifiResp.up.kind = "raise"
    /\ wifiResp.body.ssid = Str(FallbackSsidPrefix \o <<"9", "9", "9", "9">>)
    /\ wifiResp.body.password = Str(<<"n", "d", "9", "9", "9", "9">>)

\* A well-formed object bare, and inside ```json ... ``` markers.
BareWrappers == {w \in Wrappers : w.open = <<>> /\ w.close = <<>>}
FencedWrappers == {w \in Wrappers : w.open = FenceJson /\ w.close = Fence}

\* C3: the answer to a well-formed JSON object with keys ssid, password and
\* hint is the pair of exactly those three values, both when the text is bare
\* and when it is wrapped in ```json ... ``` markers.
C3_WellFormedUnchanged ==
    \A s \in SampleSsids, p \in SamplePasswords, h \in SampleHints, indent \in Indents :
        \A w \in BareWrappers \cup FencedWrappers :
            (Answered /\ wifiResp.up = Upstream("text", "none", Wrap(w, FullObject(s, p, h, indent))))
                => /\ wifiResp.status = 200
                   /\ wifiResp.body = Pair(Str(s), Str(p), h)

\* A fenced, indented object has been answered with its three values.
C3_Witness ==
    /\ Answered
    /\ \E w \in FencedWrappers :
           /\ w.nl = <<"\n">>
           /\ wifiResp.up.content =
                  Wrap(w, FullObject(CosmicPizza88, CP88, Str(FirstLetters), <<"\n", " ">>))
    /\ wifiResp.body = Pair(Str(CosmicPizza88), Str(CP88), Str(FirstLetters))

(***************************************************************************)
(* The image cache: properties, checked under Spec                         *)
(***************************************************************************)

\* A step of get_images: the only steps of Spec that leave the clock and the
\* filesystem as they are.
GetImagesStep == clock' = clock /\ fs' = fs /\ rootExists' = rootExists

\* C4: a get_images call made while the cache is empty, or more than
\* scan_interval after the last scan that succeeded, scans the root before it
\* returns, and returns what that scan gave: the images found, truncated, if
\* the scan succeeded, the empty list if it failed or found no root.
C4_StaleCallScans ==
    [][(GetImagesStep /\ call'.stale # "no") =>
          /\ call'.scanned
          /\ call'.raised = "none"
          /\ IF call'.outcome = "ok"
             THEN /\ rootExists
                  /\ \E order \in ListingOrders :
                         images' = Truncate(SelectSeq(rglob(order), IsImageFile), max_size)
             ELSE images' = <<>>]_vars

\* A call found a non-empty cache older than scan_interval and scanned.
C4_Witness ==
    /\ call.stale = "elapsed"
    /\ call.scanned
    /\ call.outcome = "ok"
    /\ images # <<>>

\* C5, as claimed: a get_images call made within scan_interval of the call
\* before it returns the list that call returned and does not scan.
C5_AsClaimed ==
    [][(GetImagesStep /\ call.at # Never /\ clock - call.at <= scan_interval) =>
          (images' = images /\ ~call'.scanned)]_vars

\* C5, amended: a get_images call made while the list the call before it
\* returned is not empty, and no more than scan_interval after the last scan
\* that succeeded, returns that same list and does not scan.
C5_FreshCallReturnsSameList ==
    [][(GetImagesStep /\ call.at # Never /\ images # <<>>
            /\ lastOk # Never /\ clock - lastOk <= scan_interval) =>
          (images' = images /\ ~call'.scanned)]_vars

\* A call returned, without a scan, a list naming a file that is gone.
C5_Witness ==
    /\ call.at # Never
    /\ ~call.scanned
    /\ images # <<>>
    /\ \E i \in 1..Len(images) : ~exists(images[i])

\* C6: the list the cache holds (and get_images returns) never has more than
\* max_size entries.
C6_AtMostMaxSize == Len(images) <= max_size

\* A scan found more images than max_size and the list holds max_size.
C6_Witness ==
    /\ call.outcome = "ok"
    /\ call.found > max_size
    /\ Len(images) = max_size

\* A regular file (not a symbolic link) with an allowed extension.
IsRegularImageFile(path) ==
    LKind(path) = "file" /\ lower(suffix(path)) \in ALLOWED_IMAGE_TYPES

\* C7, as claimed: a scan that succeeds stores exactly the regular files
\* under the root whose extension, lower-cased, is allowed, in traversal
\* order and truncated to max_size; directories, files reached through a
\* symbolic link out of the root and other extensions are left out.
C7_AsClaimed ==
    [][(GetImagesStep /\ call'.scanned /\ call'.outcome = "ok") =>
          \E order \in ListingOrders :
              images' = Truncate(SelectSeq(rglob(order), IsRegularImageFile), max_size)]_vars

\* C8: a scan that finds no root, or in which an error is raised, leaves the
\* cache empty and the time of the last scan where it was, and get_images
\* returns (the empty list) without raising.
C8_FailedScanEmptiesCache ==
    [][(GetImagesStep /\ call'.scanned /\ (~rootExists \/ call'.outcome = "error")) =>
          /\ images' = <<>>
          /\ last_scan' = last_scan
          /\ lastOk' = lastOk
          /\ call'.raised = "none"]_vars

\* After a scan that succeeded, a later scan found no root: the cache is
\* empty and the time of the last scan is still that of the earlier one.
C8_Witness ==
    /\ call.outcome = "missing"
    /\ call.stale = "elapsed"
    /\ images = <<>>
    /\ lastOk # Never
    /\ last_scan = lastOk
    /\ call.at > last_scan

(***************************************************************************)
(* The image retrieval handler: properties, checked under SpecImage        *)
(***************************************************************************)

\* A step of get_image: the only steps of SpecImage that leave the filesystem
\* as it is.
GetImageStep == fs' = fs /\ rootExists' = rootExists

\* The path a filename names resolves, and what it resolves to.
Resolvable(filename) == \A i \in 1..Len(filename) : filename[i] # Nul
ResolvedPath(filename) == resolve(JoinPath(IMAGE_DIR, filename))

\* C9: a request whose filename resolves outside the image root is answered
\* 403, and a 200 only ever serves a file that resolves inside the root.
C9_TraversalForbidden ==
    [][GetImageStep =>
          /\ (/\ Resolvable(imgResp'.filename)
              /\ ~is_relative_to(ResolvedPath(imgResp'.filename), IMAGE_DIR))
                 => imgResp'.status = 403
          /\ imgResp'.status = 200 =>
                 /\ is_relative_to(ResolvedPath(imgResp'.filename), IMAGE_DIR)
                 /\ is_relative_to(imgResp'.served, IMAGE_DIR)]_vars

\* ../../etc/passwd was requested while /etc/passwd exists, and refused.
C9_Witness ==
    /\ imgResp.filename =
           <<".", ".", "/", ".", ".", "/", "e", "t", "c", "/", "p", "a", "s", "s", "w", "d">>
    /\ is_file(ResolvedPath(imgResp.filename))
    /\ imgResp.status = 403

\* The status the order of checks of the claim gives a resolvable filename.
StatusByOrderOfChecks(filename) ==
    LET written == JoinPath(IMAGE_DIR, filename) IN
    IF ~is_relative_to(ResolvedPath(filename), IMAGE_DIR) THEN 403
    ELSE IF Kind(written) # "file" THEN 404
    ELSE IF \A t \in ALLOWED_IMAGE_TYPES : lower(suffix(written)) # t THEN 400
    ELSE 200

\* C10: the answer is 403 if the path escapes the root, else 404 if it does
\* not exist or is no regular file, else 400 if its extension, lower-cased,
\* is not allowed, else 200; the 4xx of these checks is the status sent, not
\* a 500.
C10_OrderOfChecks ==
    [][(GetImageStep /\ Resolvable(imgResp'.filename)) =>
          imgResp'.status = StatusByOrderOfChecks(imgResp'.filename)]_vars

\* c.txt, a regular file inside the root, was requested and refused with 400.
C10_Witness ==
    /\ imgResp.filename = <<"c", ".", "t", "x", "t">>
    /\ rootExists
    /\ fs["c"] = "file"
    /\ imgResp.status = 400

(***************************************************************************)
(* The health page: properties, checked under SpecHealth                   *)
(***************************************************************************)

\* A step of SpecHealth that handles a GET /health request: the only step
\* that leaves the clock and the filesystem as they are.
HealthStep == clock' = clock /\ fs' = fs /\ rootExists' = rootExists

\* C11 as claimed: handling GET /health reports the length of the list the
\* cache holds and leaves the cached list and the last-scan time unchanged,
\* whether the cache is fresh, stale or empty.
C11_AsClaimed ==
    [][HealthStep =>
          /\ healthResp'.image_count = Len(images)
          /\ images' = images
          /\ last_scan' = last_scan]_vars

\* C11, amended: GET /health reports image_count equal to the length of the
\* list the cache holds when the request has been handled.  On a fresh
\* cache (a non-empty list, scanned with success no more than scan_interval
\* ago) the request leaves the cached list and the last-scan time unchanged;
\* on a stale or empty cache it scans the directory as any other caller of
\* get_images does, and the cache holds the result of that scan.
C11_HealthCountsCacheAfterCall ==
    [][HealthStep =>
          /\ healthResp'.status = "healthy"
          /\ healthResp'.image_count = Len(images')
          /\ Staleness(clock) = "no" =>
                 /\ images' = images
                 /\ last_scan' = last_scan
                 /\ ~call'.scanned
          /\ Staleness(clock) # "no" =>
                 /\ call'.scanned
                 /\ \/ images' = <<>>
                    \/ /\ \E order \in ListingOrders : images' = ScanList(order)
                       /\ last_scan' = clock]_vars

\* A /health request that found the cache stale by age, scanned, and reports
\* a count that differs from the length of the list held before; and, after
\* it, the cache is fresh.
C11_Witness ==
    /\ healthResp.status = "healthy"
    /\ call.stale = "elapsed"
    /\ call.scanned
    /\ call.outcome = "ok"
    /\ healthResp.image_count = Len(images)
    /\ healthResp.image_count = 3
    /\ Staleness(clock) = "no"

(***************************************************************************)
(* The handler tasks: properties, checked under SpecTasks                  *)
(***************************************************************************)

\* The lists that are a whole value: the empty list, and the complete
\* (truncated) list of a single scan that has been performed.
WholeLists == {<<>>} \cup {scans[k] : k \in 1..Len(scans)}

\* C12: under every interleaving of the handler tasks at their suspend
\* points, the shared list is empty or the complete (truncated) result of a
\* single scan, and so is every list get_images has returned to a handler;
\* never a partly built list, never a mix of two scans.
C12_ListReplacedAsWhole ==
    /\ images \in WholeLists
    /\ \A t \in Tasks : tasks[t].pc = "done" => tasks[t].observed \in WholeLists

\* Two requests both judged the cache stale before either had scanned, both
\* scanned, the second scan overwrote the non-empty list of the first with a
\* different one, and both requests returned the list of the second scan.
C12_Witness ==
    /\ \A t \in Tasks : /\ tasks[t].pc = "done"
                        /\ tasks[t].judged = "stale"
                        /\ tasks[t].scanned
                        /\ tasks[t].observed = images
    /\ Len(scans) = 2
    /\ scans[1] # <<>>
    /\ scans[2] # scans[1]
    /\ images = scans[2]
    /\ lastOk = 0

(***************************************************************************)
(* The front page: properties, checked under SpecRoot                      *)
(***************************************************************************)

\* A step of SpecRoot that handles GET /: it leaves the filesystem and the
\* image response as they are.
RootStep == fs' = fs /\ rootExists' = rootExists /\ imgResp' = imgResp

\* A step of SpecRoot in which the image URL of the page is requested.
EmbeddedStep == imgResp' # imgResp

\* The page was built from a scan of the filesystem as it is now.
PageIsCurrent ==
    /\ rootResp.page = "image"
    /\ rootResp.scanned
    /\ rootResp.fsAt = fs
    /\ rootResp.rootAt = rootExists

\* C13 as claimed: GET / serves the placeholder exactly when the list it got
\* from the cache is empty, and otherwise embeds /image/<name> for one entry
\* of that list; and requesting the embedded URL, the filesystem being as
\* it was when the entry was scanned, serves that entry's file.
C13_AsClaimed ==
    [][/\ RootStep =>
             /\ rootResp'.page = "placeholder" <=> images' = <<>>
             /\ images' # <<>> =>
                    /\ rootResp'.page = "image"
                    /\ \E i \in 1..Len(images') :
                           /\ rootResp'.chosen = images'[i]
                           /\ rootResp'.image_url = ImagePrefix \o images'[i][Len(images'[i])]
       /\ (EmbeddedStep /\ PageIsCurrent) =>
             /\ imgResp'.status = 200
             /\ imgResp'.served = rootResp.chosen]_vars

====
